---------------------------- MODULE Spec2Model ----------------------------
(***************************************************************************)
(* Model of src/Arch/ArmNative/types.h, the portability header that        *)
(* supplies Windows/COM primitive types on non-Windows targets.            *)
(*                                                                         *)
(* Two state machines are modelled:                                        *)
(*   SpecPP  - the preprocessor's pass over the header in one translation  *)
(*             unit (conditional stack, macro table, declarations), the    *)
(*             header being included up to MaxIncludes times, followed by  *)
(*             the expansion of COM-style declarations of the client.      *)
(*   SpecRun - a program built against the non-Windows branch under one C  *)
(*             data model: GUID objects in memory, stores into them,       *)
(*             operator ==, and HRESULT variables receiving the status     *)
(*             constants.                                                  *)
(***************************************************************************)
EXTENDS Integers, Sequences, FiniteSets, TLC

VARIABLES
    \* ---- preprocessor pass
    winDefined,   \* whether the build defines _WINDOWS
    pc,           \* line of the header the preprocessor is at
    pass,         \* how many times the header has been entered
    cond,         \* stack of open #if frames
    macros,       \* macro table: set of [name, fn, params, body]
    declared,     \* names the header has declared (typedefs, tags, ...)
    includes,     \* files the header has included, in order
    defLog,       \* every name defined or declared, in order of definition
    expanded,     \* last client declaration expanded: [src, out] or NoExp
    \* ---- program built against the header
    dm,           \* C data model of the build
    mem,          \* object representation of the GUID objects
    nwrites,      \* stores performed so far
    cmp,          \* last call of operator ==, or NoCmp
    hr            \* last HRESULT stored, or NoHr

ppVars  == <<winDefined, pc, pass, cond, macros, declared, includes, defLog, expanded>>
runVars == <<dm, mem, nwrites, cmp, hr>>
vars    == <<winDefined, pc, pass, cond, macros, declared, includes, defLog,
             expanded, dm, mem, nwrites, cmp, hr>>

(***************************************************************************)
(* Bounds                                                                  *)
(***************************************************************************)
MaxIncludes == 2
MaxWrites == 2

(***************************************************************************)
(* The header, line by line                                                *)
(***************************************************************************)
NumLines == 92

Blank == [kind |-> "blank"]
Cont  == [kind |-> "cont"]

ObjMacro(n, b)    == [kind |-> "define", name |-> n, fn |-> FALSE, params |-> <<>>, body |-> b]
FnMacro(n, ps, b) == [kind |-> "define", name |-> n, fn |-> TRUE, params |-> ps, body |-> b]
Typedef(n, b, d)  == [kind |-> "typedef", name |-> n, base |-> b, deriv |-> d]
IntLit(b, ds)     == [base |-> b, digits |-> ds]
Field(n, t, c)    == [name |-> n, type |-> t, count |-> c]
Method(n, r, ps)  == [name |-> n, ret |-> r, params |-> ps, virtual |-> TRUE, pure |-> TRUE]

GUIDFields ==
    << Field("Data1", "DWORD", 1),
       Field("Data2", "WORD", 1),
       Field("Data3", "WORD", 1),
       Field("Data4", "BYTE", 8) >>

\* a mutant: AddRef given a body, counting in a member
IUnknownMethodsCounting ==
    << Method("QueryInterface", "HRESULT", <<"REFIID", "void**">>),
       [name |-> "AddRef", ret |-> "ULONG", params |-> <<>>, virtual |-> TRUE, pure |-> FALSE],
       Method("Release", "ULONG", <<>>) >>

IUnknownMethods ==
    << Method("QueryInterface", "HRESULT", <<"REFIID", "void**">>),
       Method("AddRef", "ULONG", <<>>),
       Method("Release", "ULONG", <<>>) >>

\* a mutant: HRESULT declared as on Windows
HRESULT_BaseLong == "long"

\* typedef int HRESULT;
HRESULT_Base == "int"

\* a mutant: the guard macro defined under another spelling
GuardDefineTypo == ObjMacro("__TYPE_H", <<>>)

\* #define __TYPES_H
GuardDefine == ObjMacro("__TYPES_H", <<>>)

\* a mutant: the calling convention kept
CallTypeBodyStdcall == <<"__stdcall">>

\* the replacement list of STDAPICALLTYPE and STDMETHODCALLTYPE: empty
CallTypeBody == <<>>

\* a mutant: S_FALSE given the value of S_OK
StatusDefinesSame ==
    [S_OK |-> "0", S_FALSE |-> "0", E_NOINTERFACE |-> "0x80004002"]

\* the replacement lists of the status constants
StatusDefines ==
    [S_OK |-> "0", S_FALSE |-> "1", E_NOINTERFACE |-> "0x80004002"]

Header ==
    [n \in 1..NumLines |->
      CASE n = 19 -> [kind |-> "ifndef", name |-> "__TYPES_H"]
        [] n = 20 -> GuardDefine
        [] n = 22 -> [kind |-> "ifdef", name |-> "_WINDOWS"]
        [] n = 24 -> [kind |-> "include", file |-> "objbase.h"]
        [] n = 25 -> ObjMacro("DLLEXPORT", <<"__declspec", "(", "dllexport", ")">>)
        [] n = 27 -> [kind |-> "else"]
        [] n = 29 -> ObjMacro("STDAPICALLTYPE", CallTypeBody)
        [] n = 30 -> ObjMacro("STDMETHODCALLTYPE", CallTypeBody)
        [] n = 31 -> ObjMacro("STDMETHODIMP", <<"int">>)
        [] n = 32 -> FnMacro("STDMETHOD", <<"name">>,
                             <<"HRESULT", "STDMETHODCALLTYPE", "name">>)
        [] n = 33 -> FnMacro("STDMETHOD_", <<"type", "name">>,
                             <<"type", "STDMETHODCALLTYPE", "name">>)
        [] n = 34 -> ObjMacro("DLLEXPORT", <<>>)
        [] n = 36 -> Typedef("UINT", "unsigned long", "none")
        [] n = 37 -> Typedef("INT", "int", "none")
        [] n = 38 -> Typedef("BOOL", "long", "none")
        [] n = 39 -> Typedef("BYTE", "unsigned char", "none")
        [] n = 40 -> Typedef("LONG", "long", "none")
        [] n = 41 -> Typedef("ULONG", "unsigned long", "none")
        [] n = 42 -> Typedef("WORD", "unsigned short", "none")
        [] n = 43 -> Typedef("DWORD", "unsigned long", "none")
        [] n = 44 -> Typedef("VARTYPE", "unsigned short", "none")
        [] n = 45 -> Typedef("USHORT", "unsigned short", "none")
        [] n = 46 -> Typedef("LCID", "DWORD", "none")
        [] n = 47 -> Typedef("SCODE", "LONG", "none")
        [] n = 48 -> Typedef("SHORT", "short", "none")
        [] n = 49 -> Typedef("WCHAR", "wchar_t", "none")
        [] n = 50 -> Typedef("TCHAR", "WCHAR", "none")
        [] n = 51 -> Typedef("OLECHAR", "WCHAR", "none")
        [] n = 53 -> [kind |-> "struct", tag |-> "_GUID", name |-> "GUID",
                      fields |-> GUIDFields, methods |-> <<>>]
        [] n \in 54..59 -> Cont
        [] n = 61 -> [kind |-> "function", name |-> "operator==",
                      ret |-> "bool", params |-> <<"const GUID&", "const GUID&">>]
        [] n \in 62..63 -> Cont
        [] n = 65 -> Typedef("IID", "GUID", "none")
        [] n = 66 -> Typedef("LPIID", "IID", "ptr")
        [] n = 68 -> Typedef("HWND", "void", "ptr")
        [] n = 69 -> Typedef("HMENU", "void", "ptr")
        [] n = 70 -> Typedef("HANDLE", "void", "ptr")
        [] n = 71 -> Typedef("REFGUID", "GUID", "ref")
        [] n = 72 -> Typedef("REFIID", "IID", "ref")
        [] n = 74 -> Typedef("HRESULT", HRESULT_Base, "none")
        [] n = 76 -> Typedef("LPWSTR", "char", "ptr")
        [] n = 78 -> [kind |-> "struct", tag |-> "IUnknown", name |-> "IUnknown",
                      fields |-> <<>>, methods |-> IUnknownMethods]
        [] n \in 79..82 -> Cont
        [] n = 84 -> [kind |-> "extern", name |-> "IID_IUnknown", type |-> "IID"]
        [] n = 86 -> ObjMacro("S_OK", <<StatusDefines.S_OK>>)
        [] n = 87 -> ObjMacro("S_FALSE", <<StatusDefines.S_FALSE>>)
        [] n = 88 -> ObjMacro("E_NOINTERFACE", <<StatusDefines.E_NOINTERFACE>>)
        [] n = 90 -> [kind |-> "endif"]
        [] n = 92 -> [kind |-> "endif"]
        [] OTHER -> Blank ]

(***************************************************************************)
(* Preprocessor: conditional inclusion                                     *)
(***************************************************************************)
IsDefined(ms, n) == \E m \in ms : m.name = n
MacroOf(ms, n)   == CHOOSE m \in ms : m.name = n

\* a line is processed only when every open #if frame is active
Active(stack) == stack = <<>> \/ stack[Len(stack)].active

PushIf(stack, holds) ==
    Append(stack, [active |-> Active(stack) /\ holds,
                   parent |-> Active(stack),
                   taken  |-> holds])

FlipElse(stack) ==
    [stack EXCEPT ![Len(stack)] =
        [active |-> stack[Len(stack)].parent /\ ~stack[Len(stack)].taken,
         parent |-> stack[Len(stack)].parent,
         taken  |-> TRUE]]

PopIf(stack) == SubSeq(stack, 1, Len(stack) - 1)

AsMacro(line) ==
    [name |-> line.name, fn |-> line.fn, params |-> line.params, body |-> line.body]

DefineMacro(ms, line) ==
    {m \in ms : m.name # line.name} \cup {AsMacro(line)}

\* names a declaration line introduces
NamesOf(line) ==
    IF line.kind = "struct" /\ line.tag # line.name
    THEN <<line.tag, line.name>>
    ELSE <<line.name>>

SeqRange(s) == {s[i] : i \in 1..Len(s)}

(***************************************************************************)
(* Preprocessor: macro expansion                                           *)
(*                                                                         *)
(* A token being rescanned carries the set of macro names it came out of   *)
(* (h): a name in that set is not expanded again.                          *)
(***************************************************************************)
Paint(toks, h) == [i \in 1..Len(toks) |-> [s |-> toks[i], h |-> h]]
Strip(ptoks)   == [i \in 1..Len(ptoks) |-> ptoks[i].s]

\* index in ptoks of the ")" closing the "(" that opened before position i
RECURSIVE CloseParen(_, _, _)
CloseParen(ptoks, i, depth) ==
    IF i > Len(ptoks) THEN 0
    ELSE IF ptoks[i].s = ")" THEN
            (IF depth = 0 THEN i ELSE CloseParen(ptoks, i + 1, depth - 1))
    ELSE IF ptoks[i].s = "(" THEN CloseParen(ptoks, i + 1, depth + 1)
    ELSE CloseParen(ptoks, i + 1, depth)

\* the arguments of a macro call: ptoks split at its top-level commas
RECURSIVE SplitArgs(_, _, _, _)
SplitArgs(ptoks, i, depth, cur) ==
    IF i > Len(ptoks) THEN <<cur>>
    ELSE IF ptoks[i].s = "," /\ depth = 0
         THEN <<cur>> \o SplitArgs(ptoks, i + 1, depth, <<>>)
    ELSE SplitArgs(ptoks, i + 1,
                   depth + (IF ptoks[i].s = "(" THEN 1
                            ELSE IF ptoks[i].s = ")" THEN -1 ELSE 0),
                   Append(cur, ptoks[i]))

ParamIndex(params, s) == CHOOSE k \in 1..Len(params) : params[k] = s

\* the body of a macro with each parameter replaced by its argument
RECURSIVE Substitute(_, _, _, _)
Substitute(body, params, args, h) ==
    IF body = <<>> THEN <<>>
    ELSE IF Head(body) \in SeqRange(params)
         THEN args[ParamIndex(params, Head(body))]
              \o Substitute(Tail(body), params, args, h)
    ELSE <<[s |-> Head(body), h |-> h]>> \o Substitute(Tail(body), params, args, h)

RECURSIVE ExpandP(_, _)
ExpandP(ptoks, ms) ==
    IF ptoks = <<>> THEN <<>>
    ELSE LET t    == Head(ptoks)
             rest == Tail(ptoks)
         IN  IF ~IsDefined(ms, t.s) \/ t.s \in t.h
             THEN <<t>> \o ExpandP(rest, ms)
             ELSE LET m == MacroOf(ms, t.s)
                      h == t.h \cup {t.s}
                  IN  IF ~m.fn
                      THEN ExpandP(Paint(m.body, h) \o rest, ms)
                      ELSE LET close == IF rest # <<>> /\ Head(rest).s = "("
                                        THEN CloseParen(rest, 2, 0) ELSE 0
                           IN  IF close = 0
                               THEN <<t>> \o ExpandP(rest, ms)
                               ELSE LET raw  == SplitArgs(SubSeq(rest, 2, close - 1), 1, 0, <<>>)
                                        args == [k \in 1..Len(raw) |-> ExpandP(raw[k], ms)]
                                    IN  IF Len(args) # Len(m.params)
                                        THEN <<t>> \o ExpandP(rest, ms)
                                        ELSE ExpandP(
                                               Substitute(m.body, m.params, args, h)
                                               \o SubSeq(rest, close + 1, Len(rest)), ms)

Expand(toks, ms) == Strip(ExpandP(Paint(toks, {}), ms))

(***************************************************************************)
(* Preprocessor: the pass over the header                                  *)
(***************************************************************************)
NoExp == [src |-> <<>>, out |-> <<>>]
Done  == NumLines + 1

\* macros the build defines before the first line is read
Predefined(win) == IF win THEN {AsMacro(ObjMacro("_WINDOWS", <<>>))} ELSE {}

DeclKinds == {"typedef", "struct", "function", "extern"}
CondKinds == {"ifdef", "ifndef", "else", "endif"}

DeclaredNames == UNION {SeqRange(NamesOf(d)) : d \in declared}

\* COM-style declarations of a client, as token sequences
ClientNames == {"QueryInterface", "AddRef"}
ClientTypes == {"ULONG", "void"}
ClientDecls ==
    {<<"STDAPICALLTYPE">>, <<"STDMETHODCALLTYPE">>, <<"DLLEXPORT">>}
    \cup {<<"STDMETHOD", "(", n, ")">> : n \in ClientNames}
    \cup {<<"STDMETHOD_", "(", t, ",", n, ")">> : t \in ClientTypes, n \in ClientNames}
    \cup {<<"STDMETHOD", "(", n, ")", "(", "REFIID", ",", "void", "*", "*", ")", ";">> :
             n \in ClientNames}
    \cup {<<"DLLEXPORT", "HRESULT", "STDAPICALLTYPE", n, "(", ")", ";">> : n \in ClientNames}

PPInit ==
    /\ winDefined \in BOOLEAN
    /\ pc = 1
    /\ pass = 1
    /\ cond = <<>>
    /\ macros = Predefined(winDefined)
    /\ declared = {}
    /\ includes = <<>>
    /\ defLog = <<>>
    /\ expanded = NoExp

\* #ifdef / #ifndef: evaluated in skipped groups too, to keep the nesting
StepIf ==
    /\ pc <= NumLines
    /\ Header[pc].kind \in {"ifdef", "ifndef"}
    /\ cond' = PushIf(cond, IF Header[pc].kind = "ifdef"
                            THEN IsDefined(macros, Header[pc].name)
                            ELSE ~IsDefined(macros, Header[pc].name))
    /\ pc' = pc + 1
    /\ UNCHANGED <<winDefined, pass, macros, declared, includes, defLog, expanded>>
    /\ UNCHANGED runVars

StepElse ==
    /\ pc <= NumLines
    /\ Header[pc].kind = "else"
    /\ cond # <<>>
    /\ cond' = FlipElse(cond)
    /\ pc' = pc + 1
    /\ UNCHANGED <<winDefined, pass, macros, declared, includes, defLog, expanded>>
    /\ UNCHANGED runVars

StepEndif ==
    /\ pc <= NumLines
    /\ Header[pc].kind = "endif"
    /\ cond # <<>>
    /\ cond' = PopIf(cond)
    /\ pc' = pc + 1
    /\ UNCHANGED <<winDefined, pass, macros, declared, includes, defLog, expanded>>
    /\ UNCHANGED runVars

StepDefine ==
    /\ pc <= NumLines
    /\ Header[pc].kind = "define"
    /\ Active(cond)
    /\ macros' = DefineMacro(macros, Header[pc])
    /\ defLog' = Append(defLog, Header[pc].name)
    /\ pc' = pc + 1
    /\ UNCHANGED <<winDefined, pass, cond, declared, includes, expanded>>
    /\ UNCHANGED runVars

StepInclude ==
    /\ pc <= NumLines
    /\ Header[pc].kind = "include"
    /\ Active(cond)
    /\ includes' = Append(includes, Header[pc].file)
    /\ pc' = pc + 1
    /\ UNCHANGED <<winDefined, pass, cond, macros, declared, defLog, expanded>>
    /\ UNCHANGED runVars

StepDeclare ==
    /\ pc <= NumLines
    /\ Header[pc].kind \in DeclKinds
    /\ Active(cond)
    /\ declared' = declared \cup {Header[pc]}
    /\ defLog' = defLog \o NamesOf(Header[pc])
    /\ pc' = pc + 1
    /\ UNCHANGED <<winDefined, pass, cond, macros, includes, expanded>>
    /\ UNCHANGED runVars

\* a blank or continuation line, or any other line of a skipped group
StepSkip ==
    /\ pc <= NumLines
    /\ \/ Header[pc].kind \in {"blank", "cont"}
       \/ ~Active(cond) /\ Header[pc].kind \notin CondKinds
    /\ pc' = pc + 1
    /\ UNCHANGED <<winDefined, pass, cond, macros, declared, includes, defLog, expanded>>
    /\ UNCHANGED runVars

\* the translation unit includes the header once more
IncludeAgain ==
    /\ pc = Done
    /\ pass < MaxIncludes
    /\ pc' = 1
    /\ pass' = pass + 1
    /\ UNCHANGED <<winDefined, cond, macros, declared, includes, defLog, expanded>>
    /\ UNCHANGED runVars

\* a declaration of the client that follows the #include is macro-expanded
ExpandClient ==
    /\ pc = Done
    /\ \E src \in ClientDecls :
          expanded' = [src |-> src, out |-> Expand(src, macros)]
    /\ UNCHANGED <<winDefined, pc, pass, cond, macros, declared, includes, defLog>>
    /\ UNCHANGED runVars

PPNext ==
    \/ StepIf
    \/ StepElse
    \/ StepEndif
    \/ StepDefine
    \/ StepInclude
    \/ StepDeclare
    \/ StepSkip
    \/ IncludeAgain
    \/ ExpandClient

(***************************************************************************)
(* Types: typedef resolution, sizes and struct layout under a data model   *)
(***************************************************************************)
DataModels == {"ILP32", "LP64", "LLP64"}

\* sizeof of the fundamental types the typedefs of the header name
SizeofFund(d, t) ==
    CASE t \in {"char", "unsigned char"}   -> 1
      [] t \in {"short", "unsigned short"} -> 2
      [] t \in {"int", "unsigned int"}     -> 4
      [] t \in {"long", "unsigned long"}   -> IF d = "LP64" THEN 8 ELSE 4

IsSignedFund(t) == t \in {"short", "int", "long"}

IsTypedef(T) ==
    \E n \in 1..NumLines :
        Header[n].kind = "typedef" /\ Header[n].name = T /\ Header[n].deriv = "none"

TypedefLine(T) ==
    CHOOSE n \in 1..NumLines : Header[n].kind = "typedef" /\ Header[n].name = T

\* the fundamental type a typedef name stands for
RECURSIVE Resolve(_)
Resolve(T) == IF IsTypedef(T) THEN Resolve(Header[TypedefLine(T)].base) ELSE T

Sizeof(d, T)  == SizeofFund(d, Resolve(T))
Alignof(d, T) == Sizeof(d, T)
IsSigned(T)   == IsSignedFund(Resolve(T))
BitWidth(d, T) == 8 * Sizeof(d, T)

RoundUp(n, a) == ((n + a - 1) \div a) * a

\* offset of each member, in declaration order, each aligned to its type
RECURSIVE FieldOffsets(_, _, _, _)
FieldOffsets(d, fields, i, at) ==
    IF i > Len(fields) THEN <<>>
    ELSE LET off == RoundUp(at, Alignof(d, fields[i].type))
         IN  <<off>> \o FieldOffsets(d, fields, i + 1,
                                     off + fields[i].count * Sizeof(d, fields[i].type))

FieldSize(d, f) == f.count * Sizeof(d, f.type)

MaxOf(S) == CHOOSE x \in S : \A y \in S : y <= x

StructSize(d, fields) ==
    LET offs == FieldOffsets(d, fields, 1, 0)
        end  == offs[Len(fields)] + FieldSize(d, fields[Len(fields)])
    IN  RoundUp(end, MaxOf({Alignof(d, fields[i].type) : i \in 1..Len(fields)}))

\* byte offsets of the struct that belong to no member
PaddingOffsets(d, fields) ==
    LET offs == FieldOffsets(d, fields, 1, 0)
    IN  {o \in 0..(StructSize(d, fields) - 1) :
            \A i \in 1..Len(fields) :
                o < offs[i] \/ o >= offs[i] + FieldSize(d, fields[i])}

\* the layout of GUID under each data model
GuidLayout ==
    [d \in DataModels |->
        [size    |-> StructSize(d, GUIDFields),
         offsets |-> FieldOffsets(d, GUIDFields, 1, 0),
         sizes   |-> [i \in 1..Len(GUIDFields) |-> FieldSize(d, GUIDFields[i])],
         padding |-> PaddingOffsets(d, GUIDFields)]]

GuidSize(d)    == GuidLayout[d].size
GuidPadding(d) == GuidLayout[d].padding

(***************************************************************************)
(* operator == on GUID                                                     *)
(***************************************************************************)
\* memcmp: the sign of the first differing byte pair, bytes as unsigned char
RECURSIVE Memcmp(_, _, _, _)
Memcmp(a, b, i, n) ==
    IF i > n THEN 0
    ELSE IF a[i] < b[i] THEN -1
    ELSE IF a[i] > b[i] THEN 1
    ELSE Memcmp(a, b, i + 1, n)

\* a mutant: the comparison result tested for "less than"
OperatorEqLess(a, b, n) == Memcmp(a, b, 1, n) < 0

\* return memcmp(&a, &b, sizeof(a));  the int result converted to bool
OperatorEq(a, b, n) == Memcmp(a, b, 1, n) # 0

(***************************************************************************)
(* Status constants and HRESULT                                            *)
(***************************************************************************)
StatusNames == {"S_OK", "S_FALSE", "E_NOINTERFACE"}

\* the spelling of an integer literal token: its base and its digits
Lex(tok) ==
    CASE tok = "0"          -> IntLit(10, <<0>>)
      [] tok = "1"          -> IntLit(10, <<1>>)
      [] tok = "0x80004002" -> IntLit(16, <<8, 0, 0, 0, 4, 0, 0, 2>>)

\* little-endian bytes of a sequence of hexadecimal digits
RECURSIVE HexBytes(_)
HexBytes(ds) ==
    IF ds = <<>> THEN <<>>
    ELSE IF Len(ds) = 1 THEN <<ds[1]>>
    ELSE <<ds[Len(ds) - 1] * 16 + ds[Len(ds)]>> \o HexBytes(SubSeq(ds, 1, Len(ds) - 2))

RECURSIVE DecValue(_)
DecValue(ds) ==
    IF ds = <<>> THEN 0 ELSE DecValue(SubSeq(ds, 1, Len(ds) - 1)) * 10 + ds[Len(ds)]

RECURSIVE NatBytes(_)
NatBytes(v) == IF v = 0 THEN <<>> ELSE <<v % 256>> \o NatBytes(v \div 256)

\* drop the high-order zero bytes
RECURSIVE Trim(_)
Trim(bs) ==
    IF bs # <<>> /\ bs[Len(bs)] = 0 THEN Trim(SubSeq(bs, 1, Len(bs) - 1)) ELSE bs

\* the value of a literal, as its little-endian bytes without leading zeros
LitBytes(lit) ==
    IF lit.base = 16 THEN Trim(HexBytes(lit.digits)) ELSE NatBytes(DecValue(lit.digits))

\* the line of the header that defines macro name
MacroLine(name) ==
    CHOOSE n \in 1..NumLines : Header[n].kind = "define" /\ Header[n].name = name

StatusValue(name) == LitBytes(Lex(Header[MacroLine(name)].body[1]))

\* whether a non-negative value fits the n-byte type of that signedness
Fits(bs, n, signed) ==
    \/ Len(bs) < n
    \/ Len(bs) = n /\ (~signed \/ bs[n] < 128)

\* the type of an unsuffixed literal: the first type of the list it fits
LitType(d, lit) ==
    LET v == LitBytes(lit)
    IN  IF Fits(v, SizeofFund(d, "int"), TRUE) THEN "int"
        ELSE IF lit.base = 16 /\ Fits(v, SizeofFund(d, "unsigned int"), FALSE)
             THEN "unsigned int"
        ELSE IF Fits(v, SizeofFund(d, "long"), TRUE) THEN "long"
        ELSE "unsigned long"

\* integral conversion of a non-negative value to an n-byte type:
\* zero-extended, then reduced modulo 2^(8n)
ConvertTo(bs, n) == [i \in 1..n |-> IF i <= Len(bs) THEN bs[i] ELSE 0]

IsNegative(bs, signed) == signed /\ bs[Len(bs)] >= 128

\* HRESULT hr = <status constant>: what hr holds, under each data model
StoredStatus ==
    [d \in DataModels |->
        [c \in StatusNames |->
            [src    |-> c,
             type   |-> LitType(d, Lex(Header[MacroLine(c)].body[1])),
             bytes  |-> ConvertTo(StatusValue(c), Sizeof(d, "HRESULT")),
             signed |-> IsSigned("HRESULT")]]]

(***************************************************************************)
(* A program built against the non-Windows branch                          *)
(***************************************************************************)
Objs  == {"a", "b"}
NoCmp == [lhs |-> "none", rhs |-> "none", res |-> FALSE, before |-> <<>>]
NoHr  == [src |-> "none", type |-> "none", bytes |-> <<>>, signed |-> FALSE]

\* byte values stores draw from
ByteSamples == {0, 255}

ZeroGuid(d) == [i \in 1..GuidSize(d) |-> 0]

\* offsets are 0-based, as in the layout; mem holds offset o at index o + 1
PutByte(m, o, off, v) == [m EXCEPT ![o][off + 1] = v]

RunInit ==
    /\ dm \in DataModels
    /\ mem = [o \in Objs |-> ZeroGuid(dm)]
    /\ nwrites = 0
    /\ cmp = NoCmp
    /\ hr = NoHr

\* a store into a byte of one of the members Data1..Data4
StoreMember ==
    /\ nwrites < MaxWrites
    /\ \E o \in Objs, v \in ByteSamples :
         \E off \in (0..(GuidSize(dm) - 1)) \ GuidPadding(dm) :
            mem' = PutByte(mem, o, off, v)
    /\ nwrites' = nwrites + 1
    /\ cmp' = NoCmp
    /\ UNCHANGED <<dm, hr>>
    /\ UNCHANGED ppVars

\* a padding byte takes another value (its value is unspecified after a store)
ClobberPadding ==
    /\ nwrites < MaxWrites
    /\ \E o \in Objs, v \in ByteSamples :
         \E off \in GuidPadding(dm) :
            mem' = PutByte(mem, o, off, v)
    /\ nwrites' = nwrites + 1
    /\ cmp' = NoCmp
    /\ UNCHANGED <<dm, hr>>
    /\ UNCHANGED ppVars

\* x == y: the operands are read through const references
Compare ==
    /\ \E x \in Objs, y \in Objs :
          cmp' = [lhs |-> x, rhs |-> y,
                  res |-> OperatorEq(mem[x], mem[y], GuidSize(dm)),
                  before |-> mem]
    /\ UNCHANGED <<dm, mem, nwrites, hr>>
    /\ UNCHANGED ppVars

\* HRESULT hr = <status constant>;
StoreStatus ==
    /\ \E c \in StatusNames :
          hr' = StoredStatus[dm][c]
    /\ UNCHANGED <<dm, mem, nwrites, cmp>>
    /\ UNCHANGED ppVars

RunNext ==
    \/ StoreMember
    \/ ClobberPadding
    \/ Compare
    \/ StoreStatus

(***************************************************************************)
(* Specifications                                                          *)
(***************************************************************************)
\* the preprocessor pass; no program runs
InitPP ==
    /\ PPInit
    /\ dm = "ILP32"
    /\ mem = [o \in Objs |-> ZeroGuid(dm)]
    /\ nwrites = 0
    /\ cmp = NoCmp
    /\ hr = NoHr

NextPP == PPNext

SpecPP == InitPP /\ [][NextPP]_vars

\* the program, built without _WINDOWS; the preprocessor does not move
InitRun ==
    /\ RunInit
    /\ PPInit
    /\ ~winDefined

NextRun == RunNext

SpecRun == InitRun /\ [][NextRun]_vars

(***************************************************************************)
(* Properties                                                              *)
(***************************************************************************)
Compared == cmp.lhs # "none"
PassDone == pc = Done

\* object g with its padding bytes replaced by those of p
WithPadding(g, p) ==
    [i \in 1..Len(g) |-> IF (i - 1) \in DOMAIN p THEN p[i - 1] ELSE g[i]]

\* C1: operator == returns true when every byte of its two operands is
\* identical and false when at least one byte differs.
C1_EqualIffBytesIdentical ==
    Compared => (cmp.res <=> (cmp.before[cmp.lhs] = cmp.before[cmp.rhs]))

\* C2: under every data model sizeof(GUID) is 16: a 4-byte Data1, 2-byte
\* Data2 and Data3 and an 8-byte Data4, in that order.
C2_GuidIs16Bytes ==
    /\ GuidSize(dm) = 16
    /\ [i \in 1..Len(GUIDFields) |-> GUIDFields[i].name]
         = <<"Data1", "Data2", "Data3", "Data4">>
    /\ GuidLayout[dm].sizes = <<4, 2, 2, 8>>
    /\ GuidLayout[dm].offsets = <<0, 4, 6, 8>>

\* C3: under every data model UINT, DWORD and ULONG are unsigned and exactly
\* 32 bits wide, and INT and LONG are signed and exactly 32 bits wide.
C3_ThirtyTwoBitIntegers ==
    /\ \A T \in {"UINT", "DWORD", "ULONG"} : BitWidth(dm, T) = 32 /\ ~IsSigned(T)
    /\ \A T \in {"INT", "LONG"} : BitWidth(dm, T) = 32 /\ IsSigned(T)

\* the value of a status constant as the macro table of the pass holds it
TableValue(name) == LitBytes(Lex(MacroOf(macros, name).body[1]))

\* C4: once the header is read without _WINDOWS, S_OK is 0, S_FALSE is 1 and
\* E_NOINTERFACE is 0x80004002 (bytes 02 40 00 80, low byte first, that is
\* 2 + 64*2^8 + 0*2^16 + 128*2^24); the three values are pairwise distinct.
C4_StatusValues ==
    (PassDone /\ ~winDefined) =>
        /\ \A c \in StatusNames : IsDefined(macros, c) /\ ~MacroOf(macros, c).fn
        /\ TableValue("S_OK") = <<>>
        /\ TableValue("S_FALSE") = <<1>>
        /\ TableValue("E_NOINTERFACE") = <<2, 64, 0, 128>>
        /\ \A c1, c2 \in StatusNames : c1 # c2 => TableValue(c1) # TableValue(c2)

C4_Witness ==
    PassDone /\ ~winDefined /\ IsDefined(macros, "E_NOINTERFACE")

\* C5: an HRESULT is a signed 32-bit integer; S_OK and S_FALSE stored in one
\* are not negative, E_NOINTERFACE stored in one has bit 31 set and is
\* negative.
C5_HresultSign ==
    hr.src # "none" =>
        /\ Len(hr.bytes) = 4
        /\ hr.signed
        /\ hr.src \in {"S_OK", "S_FALSE"} => ~IsNegative(hr.bytes, hr.signed)
        /\ hr.src = "E_NOINTERFACE" =>
              hr.bytes[4] >= 128 /\ IsNegative(hr.bytes, hr.signed)

C5_Witness == hr.src = "E_NOINTERFACE" /\ dm = "LP64"

\* C6: the IUnknown the header declares has exactly the three operations
\* QueryInterface(REFIID, void**) -> HRESULT, AddRef() -> ULONG and
\* Release() -> ULONG, REFIID being a reference to an IID; all three are
\* pure virtual and the struct has no data member.
C6_IUnknownShape ==
    /\ \A d \in declared :
          (d.kind = "struct" /\ d.name = "IUnknown") =>
            /\ d.fields = <<>>
            /\ Len(d.methods) = 3
            /\ {[name |-> m.name, ret |-> m.ret, params |-> m.params] :
                    m \in SeqRange(d.methods)}
                 = { [name |-> "QueryInterface", ret |-> "HRESULT",
                      params |-> <<"REFIID", "void**">>],
                     [name |-> "AddRef", ret |-> "ULONG", params |-> <<>>],
                     [name |-> "Release", ret |-> "ULONG", params |-> <<>>] }
            /\ \A m \in SeqRange(d.methods) : m.virtual /\ m.pure
            /\ \E t \in declared :
                  t.kind = "typedef" /\ t.name = "REFIID"
                  /\ t.base = "IID" /\ t.deriv = "ref"
    /\ (PassDone /\ ~winDefined) =>
          Cardinality({d \in declared : d.name = "IUnknown"}) = 1

C6_Witness ==
    PassDone /\ ~winDefined /\ \E d \in declared : d.name = "IUnknown"

\* C7: without _WINDOWS, STDAPICALLTYPE, STDMETHODCALLTYPE and DLLEXPORT
\* expand to nothing, STDMETHOD(name) expands to "HRESULT name" and
\* STDMETHOD_(type,name) to "type name"; the tokens around them are kept.
C7_MacroExpansion ==
    ~winDefined =>
        /\ expanded.src \in {<<"STDAPICALLTYPE">>, <<"STDMETHODCALLTYPE">>, <<"DLLEXPORT">>}
              => expanded.out = <<>>
        /\ \A n \in ClientNames :
              /\ expanded.src = <<"STDMETHOD", "(", n, ")">>
                    => expanded.out = <<"HRESULT", n>>
              /\ \A t \in ClientTypes :
                    expanded.src = <<"STDMETHOD_", "(", t, ",", n, ")">>
                      => expanded.out = <<t, n>>
              /\ expanded.src = <<"STDMETHOD", "(", n, ")",
                                   "(", "REFIID", ",", "void", "*", "*", ")", ";">>
                    => expanded.out = <<"HRESULT", n,
                                        "(", "REFIID", ",", "void", "*", "*", ")", ";">>
              /\ expanded.src = <<"DLLEXPORT", "HRESULT", "STDAPICALLTYPE", n, "(", ")", ";">>
                    => expanded.out = <<"HRESULT", n, "(", ")", ";">>

C7_Witness ==
    ~winDefined /\ expanded.src = <<"STDMETHOD_", "(", "ULONG", ",", "AddRef", ")">>

ShimMacros ==
    {"STDAPICALLTYPE", "STDMETHODCALLTYPE", "STDMETHODIMP", "STDMETHOD", "STDMETHOD_",
     "S_OK", "S_FALSE", "E_NOINTERFACE"}

ShimNames ==
    {"UINT", "INT", "BOOL", "BYTE", "LONG", "ULONG", "WORD", "DWORD", "VARTYPE",
     "USHORT", "LCID", "SCODE", "SHORT", "WCHAR", "TCHAR", "OLECHAR", "_GUID", "GUID",
     "operator==", "IID", "LPIID", "HWND", "HMENU", "HANDLE", "REFGUID", "REFIID",
     "HRESULT", "LPWSTR", "IUnknown", "IID_IUnknown"}

MacroNames == {m.name : m \in macros}

\* C8: with _WINDOWS the header only includes objbase.h and defines DLLEXPORT
\* as __declspec(dllexport), none of the shim names; without it the header
\* defines every shim name and an empty DLLEXPORT and includes nothing; the
\* two are never mixed, and a second inclusion defines nothing again.
C8_PlatformSwitch ==
    /\ (PassDone /\ winDefined) =>
          /\ includes = <<"objbase.h">>
          /\ declared = {}
          /\ MacroNames = {"_WINDOWS", "__TYPES_H", "DLLEXPORT"}
          /\ MacroOf(macros, "DLLEXPORT").body = <<"__declspec", "(", "dllexport", ")">>
    /\ (PassDone /\ ~winDefined) =>
          /\ includes = <<>>
          /\ DeclaredNames = ShimNames
          /\ MacroNames = ShimMacros \cup {"__TYPES_H", "DLLEXPORT"}
          /\ MacroOf(macros, "DLLEXPORT").body = <<>>
    /\ includes # <<>> => (DeclaredNames = {} /\ MacroNames \cap ShimMacros = {})
    /\ \A i, j \in 1..Len(defLog) : i # j => defLog[i] # defLog[j]
    /\ pass > 1 => Len(defLog) = IF winDefined THEN 2 ELSE 40

C8_Witness == PassDone /\ pass = 2 /\ ~winDefined /\ Len(defLog) = 40

\* C9: (a == b) and (b == a) give the same result, and the operands hold
\* after the comparison the bytes they held before it.
C9_SymmetricAndPure ==
    Compared =>
        /\ cmp.res = OperatorEq(mem[cmp.rhs], mem[cmp.lhs], GuidSize(dm))
        /\ mem = cmp.before

C9_Witness ==
    /\ cmp.lhs = "a" /\ cmp.rhs = "b"
    /\ mem["a"] # mem["b"]
    /\ cmp.res

\* C10: the result of operator == depends only on Data1..Data4: whatever the
\* padding bytes of the two operands hold (the same bytes when both operands
\* are one object), the result is the same.
C10_PaddingIndependent ==
    Compared =>
        \A pa, pb \in [GuidPadding(dm) -> ByteSamples] :
            (cmp.lhs = cmp.rhs => pa = pb) =>
            OperatorEq(WithPadding(cmp.before[cmp.lhs], pa),
                       WithPadding(cmp.before[cmp.rhs], pb), GuidSize(dm)) = cmp.res

=============================================================================
